---- MODULE Spec2Model ----
(***************************************************************************)
(* Closed-form critically damped spring (spring.h): the free update        *)
(* functions, the premultiplied variant, and the four stateful wrappers.   *)
(*                                                                         *)
(* A float is modelled as a fixed-point number: the integer n stands for   *)
(* n / Scale.  Addition and subtraction are exact; every multiplication    *)
(* rounds to the nearest representable value, as a float multiplication    *)
(* does at its own precision.                                              *)
(***************************************************************************)
EXTENDS Integers, Sequences, FiniteSets, TLC

\* cls      which object the caller holds: one of the four wrapper classes, or
\*          "free" for plain floats handed to the free functions
\* pos, vel, target   the object's fields (the caller's floats when "free")
\* asserts  the build: TRUE when ASSERTS is set (a debug build)
\* aborted  TRUE once an ASSERT has failed
\* call     the last call made: its name, its arguments and the fields before it
\* nCalls   how many calls have been made
\* chain    the run of consecutive Spring_Update calls with one springFactor:
\*          the floats it started from, the time summed, the number of calls
VARIABLES cls, pos, vel, target, asserts, aborted, call, nCalls, chain

vars == <<cls, pos, vel, target, asserts, aborted, call, nCalls, chain>>

\* ------------------------------------------------------------- arithmetic

\* Scale = Radix^2: 18 binary places.
Radix == 2^9
Scale == Radix * Radix

\* The float n/d.
Fx(n, d) == (n * Scale) \div d

Abs(a) == IF a < 0 THEN -a ELSE a

\* a * b of two non-negative floats, rounded to nearest.  The operands are
\* split into digits of Radix so that no intermediate product leaves the
\* integer range.
MulNN(a, b) ==
    LET a2 == a \div Scale
        a1 == (a \div Radix) % Radix
        a0 == a % Radix
        b2 == b \div Scale
        b1 == (b \div Radix) % Radix
        b0 == b % Radix
    IN  a2 * b2 * Scale + (a2 * b1 + a1 * b2) * Radix
        + (a2 * b0 + a1 * b1 + a0 * b2)
        + ((a1 * b0 + a0 * b1) * Radix + a0 * b0 + Scale \div 2) \div Scale

\* a * b, rounded to nearest, symmetric in sign.
Mul(a, b) ==
    IF (a < 0) = (b < 0) THEN MulNN(Abs(a), Abs(b)) ELSE -MulNN(Abs(a), Abs(b))

RECURSIVE LongDiv(_, _, _, _)
\* The quotient r / a to `places` more binary places, one place a step, given
\* its digits q so far; r < a.
LongDiv(r, a, places, q) ==
    IF places = 0 THEN q
    ELSE IF 2 * r >= a THEN LongDiv(2 * r - a, a, places - 1, 2 * q + 1)
         ELSE LongDiv(2 * r, a, places - 1, 2 * q)

\* 1 / a for a >= 1, rounded to nearest.
Recip(a) ==
    IF a = Scale THEN Scale
    ELSE (LongDiv(Scale, a, 19, 0) + 1) \div 2

RECURSIVE ExpSeries(_, _, _, _)
\* e^x for x >= 0: the power series, summed until the terms vanish.
ExpSeries(x, term, n, acc) ==
    IF term = 0 THEN acc
    ELSE LET next == (MulNN(term, x) + n \div 2) \div n
         IN  ExpSeries(x, next, n + 1, acc + term)

\* expf(x)
expf(x) ==
    IF x >= 0 THEN ExpSeries(x, Scale, 1, 0)
    ELSE Recip(ExpSeries(-x, Scale, 1, 0))

\* float_AngleModDeg(a): the equivalent angle in (-180, 180] degrees.
float_AngleModDeg(a) == Fx(180, 1) - ((Fx(180, 1) - a) % Fx(360, 1))

\* The tolerance of float_ApproxEquals.
ApproxEps == Fx(1, 1000)

\* float_ApproxEquals(a, b)
float_ApproxEquals(a, b) == Abs(a - b) <= ApproxEps

\* ---------------------------------------------------------- free functions
\* Each returns <<outPos, outVel>>.

\* Spring_Premult_Update with the velocity taken from the old position.
Spring_Premult_Update_OldPos(p, v, springFactor_dt, springExp_dt) ==
    LET B  == v + Mul(springFactor_dt, p)
        P1 == Mul(p + B, springExp_dt)
        V1 == Mul(B, springExp_dt) - Mul(springFactor_dt, p)
    IN  <<P1, V1>>

Spring_Premult_Update(p, v, springFactor_dt, springExp_dt) ==
    LET B  == v + Mul(springFactor_dt, p)
        P1 == Mul(p + B, springExp_dt)
        V1 == Mul(B, springExp_dt) - Mul(springFactor_dt, P1)
    IN  <<P1, V1>>

Spring_Premult_Lerp(p, v, targetPos, springFactor_dt, springExp_dt) ==
    LET diff == p - targetPos
        r    == Spring_Premult_Update(diff, v, springFactor_dt, springExp_dt)
    IN  <<targetPos + r[1], r[2]>>

Spring_Exp(springFactor_dt) == expf(-springFactor_dt)

\* Spring_Update with the velocity's spring term losing its springFactor.
Spring_Update_VdtNoFactor(p, v, springFactor, dt) ==
    LET springExp == Spring_Exp(Mul(springFactor, dt))
        B         == v + Mul(springFactor, p)
        Pdt       == Mul(p + Mul(B, dt), springExp)
        Vdt       == Mul(B, springExp) - Pdt
    IN  <<Pdt, Vdt>>

\* Spring_Update with B not scaled by dt.
Spring_Update_NoDt(p, v, springFactor, dt) ==
    LET springExp == Spring_Exp(Mul(springFactor, dt))
        B         == v + Mul(springFactor, p)
        Pdt       == Mul(p + B, springExp)
        Vdt       == Mul(B, springExp) - Mul(springFactor, Pdt)
    IN  <<Pdt, Vdt>>

Spring_Update(p, v, springFactor, dt) ==
    LET springExp == Spring_Exp(Mul(springFactor, dt))
        B         == v + Mul(springFactor, p)
        Pdt       == Mul(p + Mul(B, dt), springExp)
        Vdt       == Mul(B, springExp) - Mul(springFactor, Pdt)
    IN  <<Pdt, Vdt>>

\* Spring_Lerp that does not add the target back.
Spring_Lerp_NoTarget(p, v, targetPos, springFactor, dt) ==
    LET diff == p - targetPos
        r    == Spring_Update(diff, v, springFactor, dt)
    IN  <<r[1], r[2]>>

Spring_Lerp(p, v, targetPos, springFactor, dt) ==
    LET diff == p - targetPos
        r    == Spring_Update(diff, v, springFactor, dt)
    IN  <<targetPos + r[1], r[2]>>

\* Spring_LerpAngleDegree that does not wrap its result.
Spring_LerpAngleDegree_NoWrap(p, v, targetPos, springFactor, dt) ==
    LET diff == float_AngleModDeg(p - targetPos)
        r    == Spring_Update(diff, v, springFactor, dt)
    IN  <<targetPos + r[1], r[2]>>

\* Spring_LerpAngleDegree that springs the raw difference.
Spring_LerpAngleDegree_RawDiff(p, v, targetPos, springFactor, dt) ==
    LET diff == p - targetPos
        r    == Spring_Update(diff, v, springFactor, dt)
    IN  <<float_AngleModDeg(targetPos + r[1]), r[2]>>

Spring_LerpAngleDegree(p, v, targetPos, springFactor, dt) ==
    LET diff == float_AngleModDeg(p - targetPos)
        r    == Spring_Update(diff, v, springFactor, dt)
    IN  <<float_AngleModDeg(targetPos + r[1]), r[2]>>

\* The vector type T of the templates: a pair of floats.
VecZero == <<0, 0>>
VecAdd(a, b) == <<a[1] + b[1], a[2] + b[2]>>
VecSub(a, b) == <<a[1] - b[1], a[2] - b[2]>>
VecScale(s, a) == <<Mul(s, a[1]), Mul(s, a[2])>>

Spring_VecUpdate(p, v, springFactor, dt) ==
    LET springExp == Spring_Exp(Mul(springFactor, dt))
        B         == VecAdd(v, VecScale(springFactor, p))
        Pdt       == VecScale(springExp, VecAdd(p, VecScale(dt, B)))
        Vdt       == VecSub(VecScale(springExp, B), VecScale(springFactor, Pdt))
    IN  <<Pdt, Vdt>>

Spring_VecLerp(p, v, targetPos, springFactor, dt) ==
    LET diff == VecSub(p, targetPos)
        r    == Spring_VecUpdate(diff, v, springFactor, dt)
    IN  <<VecAdd(targetPos, r[1]), r[2]>>

\* #if ASSERTS ... ASSERT( float_ApproxEquals( Spring_Exp( factor ), exp ) )
\* #else ((void)0).  TRUE when execution continues past the macro.
\* The macro checking in every build.
Spring_Premult_Verify_EveryBuild(build, factor, exp) ==
    float_ApproxEquals(Spring_Exp(factor), exp)

Spring_Premult_Verify(build, factor, exp) ==
    IF build THEN float_ApproxEquals(Spring_Exp(factor), exp) ELSE TRUE

\* ------------------------------------------------------------------ bounds

\* Calls made on one wrapper object.
MaxCalls == 3
\* Consecutive Spring_Update calls on the caller's floats.
MaxChain == 2

\* -------------------------------------------------------------- the inputs

Classes == {"Spring", "SpringAngle", "Spring_Premult", "SpringVec"}

\* The wrappers have no constructor: a new object's fields hold whatever the
\* storage held.
Indeterminate == {Fx(-7, 1), Fx(100, 1)}
IndeterminateVec == {VecZero, <<Fx(-7, 1), Fx(100, 1)>>}

Targets == {Fx(-179, 1), Fx(190, 1)}
Positions == {Fx(179, 1), Fx(540, 1)}
VecTargets == {<<Fx(10, 1), Fx(-3, 1)>>, <<Fx(-179, 1), Fx(190, 1)>>}
VecPositions == {<<Fx(179, 1), Fx(5, 2)>>}
\* A negative springFactor makes the decay factor exceed 1.
SpringFactors == {Fx(-1, 4), 0, Fx(2, 1)}
Dts == {Fx(1, 2), Fx(1, 1)}
\* A decay coefficient that matches no springFactor_dt in use.
WrongExp == Fx(1, 2)
PremultFactors == {Fx(1, 2), Fx(1, 1)}
PremultArgs ==
    {<<f, e>> : f \in PremultFactors, e \in {WrongExp}} \cup
    {<<f, Spring_Exp(f)>> : f \in PremultFactors}

FnPos == {0, Fx(10, 1), Fx(179, 1), Fx(-179, 1), Fx(-90, 1)}
FnVel == {0, Fx(3, 1), Fx(-5, 2)}
FnTarget == {0, Fx(-179, 1), Fx(90, 1)}
FnK == {0, Fx(1, 2), Fx(2, 1)}
FnDt == {0, Fx(1, 2), Fx(1, 1)}

\* ------------------------------------------------------------------- state

Fields == [pos |-> pos, vel |-> vel, target |-> target]

NoCall ==
    [op |-> "none", arg |-> 0, springFactor |-> 0, dt |-> 0,
     springFactor_dt |-> 0, springExp_dt |-> 0,
     pre |-> [pos |-> 0, vel |-> 0, target |-> 0]]

NoChain == [pos |-> 0, vel |-> 0, springFactor |-> 0, t |-> 0, n |-> 0]

GetPos == pos
GetVel == vel
GetTarget == target

\* A wrapper object, just constructed.
Init ==
    /\ cls \in Classes
    /\ IF cls = "SpringVec"
       THEN /\ pos \in IndeterminateVec
            /\ vel \in IndeterminateVec
            /\ target \in IndeterminateVec
       ELSE /\ pos \in Indeterminate
            /\ vel \in Indeterminate
            /\ target \in Indeterminate
    /\ asserts \in BOOLEAN
    /\ aborted = FALSE
    /\ call = NoCall
    /\ nCalls = 0
    /\ chain = NoChain

\* The record of a call named op, made now.
Rec(op) == [NoCall EXCEPT !.op = op, !.pre = Fields]

\* What every call on a wrapper object of class c shares.
Called(c, rec) ==
    /\ cls = c
    /\ ~aborted
    /\ nCalls < MaxCalls
    /\ nCalls' = nCalls + 1
    /\ call' = rec
    /\ UNCHANGED <<cls, asserts, aborted, chain>>

\* --------------------------------------------------------------- SpringVec

SpringVecReset ==
    /\ Called("SpringVec", Rec("Reset"))
    /\ pos' = VecZero
    /\ vel' = VecZero
    /\ target' = VecZero

SpringVecUpdate ==
    \E springFactor \in SpringFactors, dt \in Dts :
        LET r == Spring_VecLerp(pos, vel, target, springFactor, dt)
        IN  /\ Called("SpringVec",
                      [Rec("Update") EXCEPT !.springFactor = springFactor, !.dt = dt])
            /\ pos' = r[1]
            /\ vel' = r[2]
            /\ UNCHANGED target

SpringVecForcePos ==
    \E p \in VecPositions :
        /\ Called("SpringVec", [Rec("ForcePos") EXCEPT !.arg = p])
        /\ pos' = p
        /\ vel' = VecZero
        /\ target' = p

SpringVecSetTarget ==
    \E t \in VecTargets :
        /\ Called("SpringVec", [Rec("SetTarget") EXCEPT !.arg = t])
        /\ target' = t
        /\ UNCHANGED <<pos, vel>>

\* ------------------------------------------------------------------ Spring

SpringReset ==
    /\ Called("Spring", Rec("Reset"))
    /\ pos' = 0
    /\ vel' = 0
    /\ target' = 0

SpringSetTarget ==
    \E t \in Targets :
        /\ Called("Spring", [Rec("SetTarget") EXCEPT !.arg = t])
        /\ target' = t
        /\ UNCHANGED <<pos, vel>>

SpringUpdate ==
    \E springFactor \in SpringFactors, dt \in Dts :
        LET r == Spring_Lerp(pos, vel, target, springFactor, dt)
        IN  /\ Called("Spring",
                      [Rec("Update") EXCEPT !.springFactor = springFactor, !.dt = dt])
            /\ pos' = r[1]
            /\ vel' = r[2]
            /\ UNCHANGED target

SpringForcePos ==
    \E p \in Positions :
        /\ Called("Spring", [Rec("ForcePos") EXCEPT !.arg = p])
        /\ pos' = p
        /\ vel' = 0
        /\ target' = p

\* ------------------------------------------------------------- SpringAngle

SpringAngleReset ==
    /\ Called("SpringAngle", Rec("Reset"))
    /\ pos' = 0
    /\ vel' = 0
    /\ target' = 0

SpringAngleSetTarget ==
    \E t \in Targets :
        /\ Called("SpringAngle", [Rec("SetTarget") EXCEPT !.arg = t])
        /\ target' = t
        /\ UNCHANGED <<pos, vel>>

SpringAngleUpdate ==
    \E springFactor \in SpringFactors, dt \in Dts :
        LET r == Spring_LerpAngleDegree(pos, vel, target, springFactor, dt)
        IN  /\ Called("SpringAngle",
                      [Rec("Update") EXCEPT !.springFactor = springFactor, !.dt = dt])
            /\ pos' = r[1]
            /\ vel' = r[2]
            /\ UNCHANGED target

\* ForcePos that leaves the velocity.
SpringAngleForcePos_KeepsVel ==
    \E p \in Positions :
        /\ Called("SpringAngle", [Rec("ForcePos") EXCEPT !.arg = p])
        /\ pos' = p
        /\ target' = p
        /\ UNCHANGED vel

SpringAngleForcePos ==
    \E p \in Positions :
        /\ Called("SpringAngle", [Rec("ForcePos") EXCEPT !.arg = p])
        /\ pos' = p
        /\ vel' = 0
        /\ target' = p

\* ---------------------------------------------------------- Spring_Premult

SpringPremultReset ==
    /\ Called("Spring_Premult", Rec("Reset"))
    /\ pos' = 0
    /\ vel' = 0
    /\ target' = 0

\* SetTarget that snaps the position to the target too.
SpringPremultSetTarget_Snaps ==
    \E t \in Targets :
        /\ Called("Spring_Premult", [Rec("SetTarget") EXCEPT !.arg = t])
        /\ target' = t
        /\ pos' = t
        /\ UNCHANGED vel

SpringPremultSetTarget ==
    \E t \in Targets :
        /\ Called("Spring_Premult", [Rec("SetTarget") EXCEPT !.arg = t])
        /\ target' = t
        /\ UNCHANGED <<pos, vel>>

\* Update( springFactor, springExp ) hands its two arguments to
\* Spring_LerpAngleDegree, whose last two parameters are springFactor and dt.
SpringPremultUpdate ==
    \E a \in PremultArgs :
        LET r == Spring_LerpAngleDegree(pos, vel, target, a[1], a[2])
        IN  /\ Called("Spring_Premult",
                      [Rec("Update") EXCEPT !.springFactor_dt = a[1],
                                            !.springExp_dt = a[2]])
            /\ pos' = r[1]
            /\ vel' = r[2]
            /\ UNCHANGED target

Next ==
    \/ SpringVecReset
    \/ SpringVecUpdate
    \/ SpringVecForcePos
    \/ SpringVecSetTarget
    \/ SpringReset
    \/ SpringSetTarget
    \/ SpringUpdate
    \/ SpringForcePos
    \/ SpringAngleReset
    \/ SpringAngleSetTarget
    \/ SpringAngleUpdate
    \/ SpringAngleForcePos
    \/ SpringPremultReset
    \/ SpringPremultSetTarget
    \/ SpringPremultUpdate

Spec == Init /\ [][Next]_vars

\* ------------------------------------------------- the free functions, called
\* The caller holds three floats and hands them to one free function, which
\* writes its results back through outPos and outVel.  Spring_Update may be
\* called again on its own results.

FnInit ==
    /\ cls = "free"
    /\ pos \in FnPos
    /\ vel \in FnVel
    /\ target \in FnTarget
    /\ asserts \in BOOLEAN
    /\ aborted = FALSE
    /\ call = NoCall
    /\ nCalls = 0
    /\ chain = NoChain

\* What every call of a free function shares.
FnCalled(rec) ==
    /\ cls = "free"
    /\ ~aborted
    /\ nCalls' = nCalls + 1
    /\ call' = rec
    /\ UNCHANGED <<cls, asserts, target>>

CallSpring_Update ==
    \E springFactor \in FnK, dt \in FnDt :
        LET r == Spring_Update(pos, vel, springFactor, dt)
        IN  /\ call.op \in {"none", "Spring_Update"}
            /\ nCalls < MaxChain
            /\ FnCalled([Rec("Spring_Update") EXCEPT !.springFactor = springFactor,
                                                     !.dt = dt])
            /\ pos' = r[1]
            /\ vel' = r[2]
            /\ chain' = IF chain.n > 0 /\ chain.springFactor = springFactor
                        THEN [chain EXCEPT !.t = @ + dt, !.n = @ + 1]
                        ELSE [pos |-> pos, vel |-> vel, springFactor |-> springFactor,
                              t |-> dt, n |-> 1]
            /\ UNCHANGED aborted

\* The caller premultiplies: springFactor_dt = springFactor * dt, and hands in
\* either the matching decay coefficient or a wrong one.
CallSpring_Premult_Update ==
    \E springFactor \in FnK, dt \in FnDt :
        \E e \in {Spring_Exp(Mul(springFactor, dt)), WrongExp} :
            LET f == Mul(springFactor, dt)
                r == Spring_Premult_Update(pos, vel, f, e)
            IN  /\ call.op = "none"
                /\ FnCalled([Rec("Spring_Premult_Update") EXCEPT
                                !.springFactor = springFactor, !.dt = dt,
                                !.springFactor_dt = f, !.springExp_dt = e])
                /\ pos' = r[1]
                /\ vel' = r[2]
                /\ UNCHANGED <<aborted, chain>>

CallSpring_Premult_Lerp ==
    \E springFactor \in FnK, dt \in FnDt :
        \E e \in {Spring_Exp(Mul(springFactor, dt)), WrongExp} :
            LET f == Mul(springFactor, dt)
                r == Spring_Premult_Lerp(pos, vel, target, f, e)
            IN  /\ call.op = "none"
                /\ FnCalled([Rec("Spring_Premult_Lerp") EXCEPT
                                !.springFactor = springFactor, !.dt = dt,
                                !.springFactor_dt = f, !.springExp_dt = e])
                /\ pos' = r[1]
                /\ vel' = r[2]
                /\ UNCHANGED <<aborted, chain>>

CallSpring_Lerp ==
    \E springFactor \in FnK, dt \in FnDt :
        LET r == Spring_Lerp(pos, vel, target, springFactor, dt)
        IN  /\ call.op = "none"
            /\ FnCalled([Rec("Spring_Lerp") EXCEPT !.springFactor = springFactor,
                                                   !.dt = dt])
            /\ pos' = r[1]
            /\ vel' = r[2]
            /\ UNCHANGED <<aborted, chain>>

CallSpring_LerpAngleDegree ==
    \E springFactor \in FnK, dt \in FnDt :
        LET r == Spring_LerpAngleDegree(pos, vel, target, springFactor, dt)
        IN  /\ call.op = "none"
            /\ FnCalled([Rec("Spring_LerpAngleDegree") EXCEPT
                            !.springFactor = springFactor, !.dt = dt])
            /\ pos' = r[1]
            /\ vel' = r[2]
            /\ UNCHANGED <<aborted, chain>>

\* The caller checks a precomputed pair with the macro.
CallSpring_Premult_Verify ==
    \E a \in PremultArgs :
        /\ call.op = "none"
        /\ FnCalled([Rec("Spring_Premult_Verify") EXCEPT !.springFactor_dt = a[1],
                                                         !.springExp_dt = a[2]])
        /\ aborted' = ~Spring_Premult_Verify(asserts, a[1], a[2])
        /\ UNCHANGED <<pos, vel, chain>>

FnNext ==
    \/ CallSpring_Update
    \/ CallSpring_Premult_Update
    \/ CallSpring_Premult_Lerp
    \/ CallSpring_Lerp
    \/ CallSpring_LerpAngleDegree
    \/ CallSpring_Premult_Verify

FnSpec == FnInit /\ [][FnNext]_vars

\* Both: a wrapper object or the free functions.
LibInit == Init \/ FnInit
LibNext == Next \/ FnNext
LibSpec == LibInit /\ [][LibNext]_vars

\* ------------------------------------------------------------------ claims

One == Fx(1, 1)

\* Within float tolerance: 1e-4 of the magnitude m of the inputs, plus 2^-13.
Close(a, b, m) == Abs(a - b) <= m \div 10000 + Fx(1, 8192)

\* <<outPos, outVel>> pairs r and s agree within tolerance, for inputs p and v.
ClosePair(r, s, p, v) ==
    /\ Close(r[1], s[1], Abs(p) + Abs(v))
    /\ Close(r[2], s[2], Abs(p) + Abs(v))

\* An angle in the canonical range (-180, 180].
InCanonicalRange(a) == -Fx(180, 1) < a /\ a <= Fx(180, 1)

\* The last call was Spring_Premult_Update with the decay coefficient that
\* matches its springFactor_dt.
PremultMatched ==
    /\ call.op = "Spring_Premult_Update"
    /\ call.springExp_dt = Spring_Exp(call.springFactor_dt)

\* C1, as stated: for every pos, vel and every springFactor > 0, dt > 0,
\* Spring_Premult_Update with springFactor*dt and exp(-springFactor*dt) returns
\* what Spring_Update(pos, vel, springFactor, dt) returns, within tolerance.
C1_PremultEquivalence_AnyDt ==
    (PremultMatched /\ call.springFactor > 0 /\ call.dt > 0) =>
        ClosePair(<<pos, vel>>,
                  Spring_Update(call.pre.pos, call.pre.vel, call.springFactor, call.dt),
                  call.pre.pos, call.pre.vel)

\* C1, amended: the two agree within tolerance when dt = 1, the step the
\* premultiplied form assumes.
C1_PremultEquivalence_UnitDt ==
    (PremultMatched /\ call.springFactor > 0 /\ call.dt = One) =>
        ClosePair(<<pos, vel>>,
                  Spring_Update(call.pre.pos, call.pre.vel, call.springFactor, call.dt),
                  call.pre.pos, call.pre.vel)

C1_Witness ==
    /\ PremultMatched
    /\ call.springFactor = Fx(2, 1)
    /\ call.dt = One
    /\ call.pre.pos = Fx(10, 1)
    /\ call.pre.vel = Fx(3, 1)
    /\ pos # call.pre.pos

\* C2: after Spring_Premult::Update(springFactor_dt, springExp_dt) the stored pos
\* and vel are the outPos and outVel of Spring_Premult_Lerp on the stored pos,
\* vel and target (stated for the calls that hand in the matching coefficient).
C2_PremultUpdateIsPremultLerp ==
    (/\ cls = "Spring_Premult"
     /\ call.op = "Update"
     /\ call.springExp_dt = Spring_Exp(call.springFactor_dt)) =>
        <<pos, vel>> = Spring_Premult_Lerp(call.pre.pos, call.pre.vel, call.pre.target,
                                           call.springFactor_dt, call.springExp_dt)

\* C3: Spring_Update with dt1 and then, on its result, with dt2 gives within
\* tolerance what one Spring_Update with dt1 + dt2 gives.
C3_Composable ==
    chain.n = 2 =>
        ClosePair(<<pos, vel>>,
                  Spring_Update(chain.pos, chain.vel, chain.springFactor, chain.t),
                  chain.pos, chain.vel)

C3_Witness ==
    /\ chain.n = 2
    /\ chain.springFactor = Fx(2, 1)
    /\ chain.t = Fx(3, 2)
    /\ call.dt = Fx(1, 2)
    /\ chain.pos = Fx(10, 1)
    /\ chain.vel = Fx(-5, 2)

\* C4, as stated: after every Update of a SpringAngle both the stored position
\* and the stored target lie in the canonical range.
C4_AnglePosAndTargetInRange ==
    (cls = "SpringAngle" /\ call.op = "Update") =>
        InCanonicalRange(pos) /\ InCanonicalRange(target)

\* C4, amended: after every Update of a SpringAngle the stored position lies in
\* the canonical range, and the stored target is what it was before the Update.
C4_AnglePosInRange ==
    (cls = "SpringAngle" /\ call.op = "Update") =>
        InCanonicalRange(pos) /\ target = call.pre.target

C4_Witness ==
    /\ cls = "SpringAngle"
    /\ call.op = "Update"
    /\ ~InCanonicalRange(call.pre.pos)
    /\ ~InCanonicalRange(target)
    /\ InCanonicalRange(pos)

\* C5: Spring_LerpAngleDegree with vel = 0, springFactor > 0, dt > 0 and pos,
\* target in the canonical range springs the shortest signed angular delta: the
\* new position lies on the shorter arc from pos to target, strictly nearer the
\* target when the two differ; from 179 towards -179 it moves up through 180, by
\* no more than the 2 degrees between them, not down through 0.
C5_ShortestPath ==
    (/\ call.op = "Spring_LerpAngleDegree"
     /\ call.pre.vel = 0
     /\ call.springFactor > 0
     /\ call.dt > 0
     /\ InCanonicalRange(call.pre.pos)
     /\ InCanonicalRange(call.pre.target)) =>
        LET delta == float_AngleModDeg(call.pre.pos - call.pre.target)
            left  == float_AngleModDeg(pos - call.pre.target)
            moved == float_AngleModDeg(call.pre.pos - pos)
        IN  /\ Abs(delta) <= Fx(180, 1)
            /\ moved + left = delta
            /\ delta >= 0 => (moved >= 0 /\ left >= 0)
            /\ delta <= 0 => (moved <= 0 /\ left <= 0)
            /\ delta # 0 => Abs(left) < Abs(delta)
            /\ (call.pre.pos = Fx(179, 1) /\ call.pre.target = Fx(-179, 1)) =>
                   (-Fx(2, 1) <= moved /\ moved < 0)

C5_Witness ==
    /\ call.op = "Spring_LerpAngleDegree"
    /\ call.pre.vel = 0
    /\ call.springFactor = Fx(2, 1)
    /\ call.dt = Fx(1, 2)
    /\ call.pre.pos = Fx(179, 1)
    /\ call.pre.target = Fx(-179, 1)
    /\ pos > Fx(179, 1)

\* The last call was one of the precomputed-coefficient updates.
PremultUpdateCalled ==
    \/ call.op \in {"Spring_Premult_Update", "Spring_Premult_Lerp"}
    \/ cls = "Spring_Premult" /\ call.op = "Update"

\* The decay coefficient of the last call does not match its springFactor_dt.
Mismatched ==
    ~float_ApproxEquals(Spring_Exp(call.springFactor_dt), call.springExp_dt)

\* C6, as stated: in a debug build a precomputed-coefficient update called with
\* a mismatched springExp_dt ends in an assertion failure.
C6_UpdateAssertsInDebug ==
    (asserts /\ PremultUpdateCalled /\ Mismatched) => aborted

\* C6, amended: the precomputed-coefficient updates check nothing and return in
\* either build; it is the macro Spring_Premult_Verify, where the caller uses
\* it, that fails the assertion on a mismatched pair in a debug build and does
\* nothing in a release build.
C6_OnlyVerifyAsserts ==
    /\ PremultUpdateCalled => ~aborted
    /\ call.op = "Spring_Premult_Verify" => (aborted <=> (asserts /\ Mismatched))

C6_Witness ==
    /\ asserts
    /\ cls = "Spring_Premult"
    /\ call.op = "Update"
    /\ Mismatched
    /\ ~aborted

\* C7: right after ForcePos(x) on a Spring or a SpringAngle, GetPos() = x,
\* GetVel() = 0 and GetTarget() = x.
C7_ForcePos ==
    (cls \in {"Spring", "SpringAngle"} /\ call.op = "ForcePos") =>
        GetPos = call.arg /\ GetVel = 0 /\ GetTarget = call.arg

C7_Witness ==
    /\ cls = "SpringAngle"
    /\ call.op = "ForcePos"
    /\ call.arg = Fx(540, 1)
    /\ call.pre.vel # 0
    /\ call.pre.target # call.arg
    /\ nCalls = 3

\* C8: after SetTarget(t) on any of the four wrappers the target is t and the
\* position and velocity are what they were before the call.
C8_SetTargetFrame ==
    call.op = "SetTarget" =>
        target = call.arg /\ pos = call.pre.pos /\ vel = call.pre.vel

C8_Witness ==
    /\ cls = "Spring_Premult"
    /\ call.op = "SetTarget"
    /\ call.pre.target # call.arg
    /\ pos # call.arg
    /\ nCalls = 3

\* C9: Spring_Update(pos, vel, 0, dt) returns exactly (pos + vel*dt, vel).
C9_ZeroStiffness ==
    (call.op = "Spring_Update" /\ call.springFactor = 0) =>
        /\ pos = call.pre.pos + Mul(call.pre.vel, call.dt)
        /\ vel = call.pre.vel

C9_Witness ==
    /\ call.op = "Spring_Update"
    /\ call.springFactor = 0
    /\ call.dt = Fx(1, 2)
    /\ call.pre.vel = Fx(-5, 2)
    /\ call.pre.pos = Fx(10, 1)
    /\ pos = Fx(35, 4)

====
